---- MODULE Spec2Model ----
(***************************************************************************)
(* registry-testkit: the storage abstraction (MemoryStorage, DiskStorage)  *)
(* and the HTTP handlers of the registry server.                           *)
(*                                                                         *)
(* Strings and byte vectors are sequences of byte values; a string is the  *)
(* sequence of its ASCII codes ("sha256:" is <<115,104,97,50,53,54,58>>).  *)
(* Option<T> is a sequence of length 0 (None) or 1 (Some).                 *)
(***************************************************************************)
EXTENDS Integers, Sequences, FiniteSets, TLC

VARIABLES
    backend,   \* "memory" (MemoryStorage) or "disk" (DiskStorage)
    storage,   \* the maps of MemoryStorage, the files of DiskStorage
    issued,    \* the upload ids start_upload has generated
    resp,      \* the last request and its response
    calls,     \* the storage calls in flight, by task
    sent,      \* history: by upload id, the chunk bodies accepted since its POST
    mput,      \* history: by (repository, reference), the manifest last PUT there
    nput,      \* history: the number of PUT manifest requests
    stored     \* history: by digest, the bytes of the last store_blob call

vars == <<backend, storage, issued, resp, calls, sent, mput, nput, stored>>

(***************************************************************************)
(* Bounds of the model.                                                    *)
(***************************************************************************)
\* longest request body of PATCH / PUT upload requests
MaxChunkLen == 1
\* most bytes a session accumulates through PATCH requests
MaxUploadLen == 2
\* number of upload ids the server generates
MaxUploads == 1
\* number of PUT manifest requests
MaxPuts == 2

(***************************************************************************)
(* Option, maps                                                            *)
(***************************************************************************)
None == <<>>

Some(x) == <<x>>

Put(m, k, v) == [x \in (DOMAIN m) \cup {k} |-> IF x = k THEN v ELSE m[x]]

Del(m, k) == [x \in (DOMAIN m) \ {k} |-> m[x]]

Lookup(m, k) == IF k \in DOMAIN m THEN Some(m[k]) ELSE None

EmptyMap == [x \in {} |-> <<>>]

(***************************************************************************)
(* Strings                                                                 *)
(***************************************************************************)
\* str::replace(['/', ':'], "_")
Sanitize(s) == [i \in 1..Len(s) |-> IF s[i] \in {47, 58} THEN 95 ELSE s[i]]

\* s.strip_prefix('/').unwrap_or(s)
strip_leading_slash(s) == IF Len(s) > 0 /\ s[1] = 47 THEN Tail(s) ELSE s

RECURSIVE ToDec(_)
\* usize::to_string: the decimal digits of n
ToDec(n) == IF n < 10 THEN <<48 + n>> ELSE ToDec(n \div 10) \o <<48 + (n % 10)>>

\* faulty variant: nothing is subtracted
saturating_sub_NoSub(a, b) == a

\* usize::saturating_sub
saturating_sub(a, b) == IF a >= b THEN a - b ELSE 0

\* HeaderValue::to_str: Ok only when every byte is visible ASCII (or a tab)
to_str(v) == IF \A i \in 1..Len(v) : v[i] \in (32..126) \cup {9} THEN Some(v) ELSE None

RECURSIVE SplitAcc(_, _, _)
SplitAcc(s, sep, cur) ==
    IF s = <<>> THEN <<cur>>
    ELSE IF Head(s) = sep THEN <<cur>> \o SplitAcc(Tail(s), sep, <<>>)
    ELSE SplitAcc(Tail(s), sep, Append(cur, Head(s)))

\* the components of s between occurrences of sep
Split(s, sep) == SplitAcc(s, sep, <<>>)

(***************************************************************************)
(* SHA-256 and hex                                                         *)
(***************************************************************************)
HexDigits == <<48,49,50,51,52,53,54,55,56,57,97,98,99,100,101,102>>

RECURSIVE HexEncode(_)
\* hex::encode of a hash value, given as a number
HexEncode(n) ==
    IF n < 16 THEN <<HexDigits[n + 1]>>
    ELSE HexEncode(n \div 16) \o <<HexDigits[(n % 16) + 1]>>

RECURSIVE Sha256(_)
\* Sha256::new().update(data).finalize(): the hash is idealised as collision
\* free, a number determined by the bytes and different for different byte
\* sequences (over the byte values 0..3 the model's bodies are made of)
Sha256(data) ==
    IF data = <<>> THEN 1
    ELSE 4 * Sha256(SubSeq(data, 1, Len(data) - 1)) + (data[Len(data)] % 4)

\* format!("sha256:{}", hex::encode(hasher.finalize()))
Sha256Digest(data) == <<115,104,97,50,53,54,58>> \o HexEncode(Sha256(data))

(***************************************************************************)
(* Storage: the state of both backends and the result of a call.          *)
(* manifests, blobs and uploads are the three maps of MemoryStorage;       *)
(* files is the directory tree below DiskStorage.base_path, a map from a   *)
(* path (the sequence of its components) to the file's bytes.              *)
(***************************************************************************)
EmptyStorage == [manifests |-> EmptyMap, blobs |-> EmptyMap, uploads |-> EmptyMap,
                 files |-> EmptyMap]

\* Result<T>: err is "ok", "io" (RegistryError::Io) or "notfound"
\* (RegistryError::UploadNotFound); val is the Ok value where there is one
Result(st, err, val) == [st |-> st, err |-> err, val |-> val]

ManifestEntry(data, content_type) == [data |-> data, content_type |-> content_type]

DefaultContentType ==
    <<97,112,112,108,105,99,97,116,105,111,110,47,118,110,100,46,100,111,99,107,
      101,114,46,100,105,115,116,114,105,98,117,116,105,111,110,46,109,97,110,105,
      102,101,115,116,46,118,50,43,106,115,111,110>>

(***************************************************************************)
(* MemoryStorage: every call takes its map's lock, acts and releases it,   *)
(* so a call is one atomic step.                                           *)
(***************************************************************************)
MemoryStorage_store_manifest(st, key, entry) ==
    Result([st EXCEPT !.manifests = Put(@, key, entry)], "ok", None)

MemoryStorage_get_manifest(st, key) == Result(st, "ok", Lookup(st.manifests, key))

MemoryStorage_store_blob(st, digest, data) ==
    Result([st EXCEPT !.blobs = Put(@, digest, data)], "ok", None)

MemoryStorage_get_blob(st, digest) == Result(st, "ok", Lookup(st.blobs, digest))

\* faulty variant: the new session replaces the map of sessions
MemoryStorage_create_upload_Clearing(st, uuid) ==
    Result([st EXCEPT !.uploads = Put(EmptyMap, uuid, <<>>)], "ok", None)

MemoryStorage_create_upload(st, uuid) ==
    Result([st EXCEPT !.uploads = Put(@, uuid, <<>>)], "ok", None)

\* faulty variant: the chunk replaces the session's bytes (insert in place of
\* extend_from_slice)
MemoryStorage_append_upload_Replacing(st, uuid, data) ==
    IF uuid \in DOMAIN st.uploads
    THEN Result([st EXCEPT !.uploads[uuid] = data], "ok", None)
    ELSE Result(st, "notfound", None)

MemoryStorage_append_upload(st, uuid, data) ==
    IF uuid \in DOMAIN st.uploads
    THEN Result([st EXCEPT !.uploads[uuid] = @ \o data], "ok", None)
    ELSE Result(st, "notfound", None)

MemoryStorage_finish_upload(st, uuid) ==
    Result([st EXCEPT !.uploads = Del(@, uuid)], "ok", Lookup(st.uploads, uuid))

(***************************************************************************)
(* DiskStorage: paths                                                      *)
(***************************************************************************)
RECURSIVE NormalizeAcc(_, _)
NormalizeAcc(cs, acc) ==
    IF cs = <<>> THEN acc
    ELSE IF Head(cs) = <<>> \/ Head(cs) = <<46>> THEN NormalizeAcc(Tail(cs), acc)
    ELSE IF Head(cs) = <<46,46>> /\ acc # <<>>
         THEN NormalizeAcc(Tail(cs), SubSeq(acc, 1, Len(acc) - 1))
    ELSE NormalizeAcc(Tail(cs), Append(acc, Head(cs)))

\* the file a relative path names below base_path: PathBuf::join keeps the
\* components of its argument and the file system resolves "." and ".."
Normalize(cs) == NormalizeAcc(cs, <<>>)

\* faulty variant: the key is joined as it comes
manifest_path_Raw(key) ==
    <<<<109,97,110,105,102,101,115,116,115>>, key \o <<46,106,115,111,110>>>>

\* base_path.join("manifests").join(format!("{}.json", safe_key))
manifest_path(key) ==
    <<<<109,97,110,105,102,101,115,116,115>>, Sanitize(key) \o <<46,106,115,111,110>>>>

\* base_path.join("manifests").join(format!("{}.meta", safe_key))
manifest_meta_path(key) ==
    <<<<109,97,110,105,102,101,115,116,115>>, Sanitize(key) \o <<46,109,101,116,97>>>>

\* base_path.join("blobs").join(safe_digest)
blob_path(digest) == <<<<98,108,111,98,115>>, Sanitize(digest)>>

\* base_path.join("uploads").join(uuid): the uuid is joined as it comes
upload_path(uuid) == Normalize(<<<<117,112,108,111,97,100,115>>>> \o Split(uuid, 47))

(***************************************************************************)
(* DiskStorage: calls. f is the number of the file-system call of this     *)
(* storage call that fails with an I/O error (0: none fails). A failed     *)
(* write leaves the file as it was.                                        *)
(***************************************************************************)
DiskStorage_store_manifest(st, key, entry, f) ==
    IF f = 1 THEN Result(st, "io", None)
    ELSE LET st1 == [st EXCEPT !.files = Put(@, manifest_path(key), entry.data)]
         IN  IF f = 2 THEN Result(st1, "io", None)
             ELSE Result([st1 EXCEPT !.files = Put(@, manifest_meta_path(key),
                                                    entry.content_type)],
                         "ok", None)

\* faulty variant: the sidecar file is never read
DiskStorage_get_manifest_NoSidecar(st, key, f) ==
    IF manifest_path(key) \notin DOMAIN st.files THEN Result(st, "ok", None)
    ELSE IF f = 1 THEN Result(st, "io", None)
    ELSE Result(st, "ok", Some(ManifestEntry(st.files[manifest_path(key)],
                                             DefaultContentType)))

DiskStorage_get_manifest(st, key, f) ==
    IF manifest_path(key) \notin DOMAIN st.files THEN Result(st, "ok", None)
    ELSE IF f = 1 THEN Result(st, "io", None)
    ELSE LET data == st.files[manifest_path(key)]
             content_type ==
                 IF f # 2 /\ manifest_meta_path(key) \in DOMAIN st.files
                 THEN st.files[manifest_meta_path(key)]
                 ELSE DefaultContentType
         IN  Result(st, "ok", Some(ManifestEntry(data, content_type)))

DiskStorage_store_blob(st, digest, data, f) ==
    IF f = 1 THEN Result(st, "io", None)
    ELSE Result([st EXCEPT !.files = Put(@, blob_path(digest), data)], "ok", None)

DiskStorage_get_blob(st, digest, f) ==
    IF blob_path(digest) \notin DOMAIN st.files THEN Result(st, "ok", None)
    ELSE IF f = 1 THEN Result(st, "io", None)
    ELSE Result(st, "ok", Some(st.files[blob_path(digest)]))

DiskStorage_create_upload(st, uuid, f) ==
    IF f = 1 THEN Result(st, "io", None)
    ELSE Result([st EXCEPT !.files = Put(@, upload_path(uuid), <<>>)], "ok", None)

DiskStorage_append_upload(st, uuid, data, f) ==
    IF upload_path(uuid) \notin DOMAIN st.files THEN Result(st, "notfound", None)
    ELSE IF f \in {1, 2} THEN Result(st, "io", None)
    ELSE LET existing == st.files[upload_path(uuid)] \o data
         IN  Result([st EXCEPT !.files = Put(@, upload_path(uuid), existing)],
                    "ok", None)

\* faulty variant: the upload file is read and left in place
DiskStorage_finish_upload_Keeping(st, uuid, f) ==
    IF upload_path(uuid) \notin DOMAIN st.files THEN Result(st, "ok", None)
    ELSE IF f \in {1, 2} THEN Result(st, "io", None)
    ELSE Result(st, "ok", Some(st.files[upload_path(uuid)]))

DiskStorage_finish_upload(st, uuid, f) ==
    IF upload_path(uuid) \notin DOMAIN st.files THEN Result(st, "ok", None)
    ELSE IF f \in {1, 2} THEN Result(st, "io", None)
    ELSE Result([st EXCEPT !.files = Del(@, upload_path(uuid))], "ok",
                Some(st.files[upload_path(uuid)]))

(***************************************************************************)
(* dyn Storage: the call goes to the backend chosen at construction        *)
(***************************************************************************)
Storage_store_manifest(b, st, key, entry, f) ==
    IF b = "memory" THEN MemoryStorage_store_manifest(st, key, entry)
    ELSE DiskStorage_store_manifest(st, key, entry, f)

Storage_get_manifest(b, st, key, f) ==
    IF b = "memory" THEN MemoryStorage_get_manifest(st, key)
    ELSE DiskStorage_get_manifest(st, key, f)

Storage_store_blob(b, st, digest, data, f) ==
    IF b = "memory" THEN MemoryStorage_store_blob(st, digest, data)
    ELSE DiskStorage_store_blob(st, digest, data, f)

Storage_get_blob(b, st, digest, f) ==
    IF b = "memory" THEN MemoryStorage_get_blob(st, digest)
    ELSE DiskStorage_get_blob(st, digest, f)

Storage_create_upload(b, st, uuid, f) ==
    IF b = "memory" THEN MemoryStorage_create_upload(st, uuid)
    ELSE DiskStorage_create_upload(st, uuid, f)

Storage_append_upload(b, st, uuid, data, f) ==
    IF b = "memory" THEN MemoryStorage_append_upload(st, uuid, data)
    ELSE DiskStorage_append_upload(st, uuid, data, f)

Storage_finish_upload(b, st, uuid, f) ==
    IF b = "memory" THEN MemoryStorage_finish_upload(st, uuid)
    ELSE DiskStorage_finish_upload(st, uuid, f)

(***************************************************************************)
(* HTTP layer: requests, responses, headers                                *)
(***************************************************************************)
\* the request the last response answers, and that response; a header the
\* handler does not set, like a header it sets to String::new(), is <<>>;
\* warned lists the storage calls (1, 2) whose failure the handler logged
NoResponse ==
    [op |-> "none", name |-> <<>>, arg |-> <<>>, body |-> <<>>,
     digest |-> None, h_digest |-> None, h_dcd |-> None, h_content_type |-> None,
     status |-> 0, Location |-> <<>>, Range |-> <<>>, DockerUploadUUID |-> <<>>,
     DockerContentDigest |-> <<>>, ContentType |-> <<>>, ContentLength |-> <<>>,
     out |-> <<>>, warned |-> <<>>]

Request(op, name, arg, body) ==
    [NoResponse EXCEPT !.op = op, !.name = name, !.arg = arg, !.body = body]

\* faulty variant: the Location of the upload, not of the blob
BlobLocation_OfUpload(name, digest) ==
    <<47,118,50,47>> \o name
        \o <<47,98,108,111,98,115,47,117,112,108,111,97,100,115,47>> \o digest

\* format!("/v2/{}/blobs/{}", name, digest_str)
BlobLocation(name, digest) ==
    <<47,118,50,47>> \o name \o <<47,98,108,111,98,115,47>> \o digest

\* format!("/v2/{}/blobs/uploads/{}", name, uuid)
UploadLocation(name, uuid) ==
    <<47,118,50,47>> \o name
        \o <<47,98,108,111,98,115,47,117,112,108,111,97,100,115,47>> \o uuid

\* format!("/v2/{}/manifests/{}", name, reference)
ManifestLocation(name, reference) ==
    <<47,118,50,47>> \o name \o <<47,109,97,110,105,102,101,115,116,115,47>> \o reference

\* format!("{}:{}", name, reference)
ManifestKey(name, reference) == name \o <<58>> \o reference

\* finish_upload's digest_str: params.digest, or_else the header "digest"
\* or_else the header "Docker-Content-Digest" and_then to_str, unwrap_or_else
\* the SHA-256 of the assembled bytes
ResolveDigest(digest, h_digest, h_dcd, upload_data) ==
    LET v == IF h_digest # None THEN h_digest ELSE h_dcd
        s == IF v = None THEN None ELSE to_str(v[1])
    IN  IF digest # None THEN digest[1]
        ELSE IF s # None THEN s[1]
        ELSE Sha256Digest(upload_data)

\* the bytes a session or upload file holds, None when there is none
PeekUpload(b, st, uuid) ==
    IF b = "memory" THEN Lookup(st.uploads, uuid) ELSE Lookup(st.files, upload_path(uuid))

(***************************************************************************)
(* Handlers. Each is the whole handler: its storage calls and its          *)
(* response. f, f1, f2 number the failing file-system call of the          *)
(* handler's first and second storage call (0: none).                      *)
(***************************************************************************)
\* faulty variant: the version of the v1 API
api_version_V1 ==
    /\ resp' = [Request("api_version", <<>>, <<>>, <<>>) EXCEPT
                  !.status = 200,
                  !.out = <<114,101,103,105,115,116,114,121,47,49,46,48>>]
    /\ UNCHANGED <<backend, storage, issued, calls, sent, mput, nput, stored>>

api_version ==
    /\ resp' = [Request("api_version", <<>>, <<>>, <<>>) EXCEPT
                  !.status = 200,
                  !.out = <<114,101,103,105,115,116,114,121,47,50,46,48>>]
    /\ UNCHANGED <<backend, storage, issued, calls, sent, mput, nput, stored>>

\* faulty variant: a hit answers Content-Length 0
check_blob_NoLength(name, digest, f) ==
    LET r == Storage_get_blob(backend, storage, digest, f)
        q == Request("check_blob", name, digest, <<>>)
    IN  /\ resp' = IF r.err = "ok" /\ r.val # None
                   THEN [q EXCEPT !.status = 200, !.ContentLength = <<48>>]
                   ELSE [q EXCEPT !.status = 404, !.ContentLength = <<48>>]
        /\ UNCHANGED <<backend, storage, issued, calls, sent, mput, nput, stored>>

check_blob(name, digest, f) ==
    LET r == Storage_get_blob(backend, storage, digest, f)
        q == Request("check_blob", name, digest, <<>>)
    IN  /\ resp' = IF r.err = "ok" /\ r.val # None
                   THEN [q EXCEPT !.status = 200,
                                  !.ContentLength = ToDec(Len(r.val[1]))]
                   ELSE [q EXCEPT !.status = 404, !.ContentLength = <<48>>]
        /\ UNCHANGED <<backend, storage, issued, calls, sent, mput, nput, stored>>

get_blob(name, digest, f) ==
    LET r == Storage_get_blob(backend, storage, digest, f)
        q == Request("get_blob", name, digest, <<>>)
    IN  /\ resp' = IF r.err = "ok" /\ r.val # None
                   THEN [q EXCEPT !.status = 200, !.out = r.val[1]]
                   ELSE [q EXCEPT !.status = 404, !.out = <<>>]
        /\ UNCHANGED <<backend, storage, issued, calls, sent, mput, nput, stored>>

start_upload(name, uuid, f) ==
    LET r == Storage_create_upload(backend, storage, uuid, f)
        q == Request("start_upload", name, uuid, <<>>)
    IN  /\ uuid \notin issued
        /\ issued' = issued \cup {uuid}
        /\ storage' = r.st
        /\ IF r.err # "ok"
           THEN /\ resp' = [q EXCEPT !.status = 500, !.Location = <<>>, !.warned = <<1>>]
                /\ sent' = sent
           ELSE /\ resp' = [q EXCEPT
                              !.status = 202,
                              !.Location = UploadLocation(strip_leading_slash(name), uuid)]
                /\ sent' = Put(sent, uuid, <<>>)
        /\ UNCHANGED <<backend, calls, mput, nput, stored>>

upload_chunk(name, uuid, body, f) ==
    LET r == Storage_append_upload(backend, storage, uuid, body, f)
        q == Request("upload_chunk", name, uuid, body)
        held == PeekUpload(backend, storage, uuid)
    IN  /\ held # None => Len(held[1]) + Len(body) <= MaxUploadLen
        /\ storage' = r.st
        /\ IF r.err = "ok"
           THEN /\ resp' = [q EXCEPT
                              !.status = 202,
                              !.Location = UploadLocation(strip_leading_slash(name), uuid),
                              !.Range = <<48,45>> \o ToDec(saturating_sub(Len(body), 1)),
                              !.DockerUploadUUID = uuid]
                /\ sent' = IF uuid \in DOMAIN sent
                           THEN [sent EXCEPT ![uuid] = @ \o body] ELSE sent
           ELSE /\ resp' = [q EXCEPT !.status = 404, !.warned = <<1>>]
                /\ sent' = sent
        /\ UNCHANGED <<backend, issued, calls, mput, nput, stored>>

finish_upload(name, uuid, digest, h_digest, h_dcd, body, f1, f2) ==
    LET r1 == Storage_finish_upload(backend, storage, uuid, f1)
        q == [Request("finish_upload", name, uuid, body) EXCEPT
                !.digest = digest, !.h_digest = h_digest, !.h_dcd = h_dcd]
    IN  IF r1.err = "ok" /\ r1.val # None
        THEN LET upload_data == r1.val[1] \o body
                 digest_str == ResolveDigest(digest, h_digest, h_dcd, upload_data)
                 r2 == Storage_store_blob(backend, r1.st, digest_str, upload_data, f2)
             IN  /\ Len(upload_data) <= MaxUploadLen + MaxChunkLen
                 /\ storage' = r2.st
                 /\ sent' = Del(sent, uuid)
                 /\ resp' = IF r2.err # "ok"
                            THEN [q EXCEPT !.status = 500, !.warned = <<2>>]
                            ELSE [q EXCEPT
                                    !.status = 201,
                                    !.Location =
                                        BlobLocation(strip_leading_slash(name), digest_str),
                                    !.DockerContentDigest = digest_str]
                 /\ UNCHANGED <<backend, issued, calls, mput, nput, stored>>
        ELSE /\ storage' = r1.st
             /\ resp' = [q EXCEPT !.status = 404, !.warned = <<1>>]
             /\ UNCHANGED <<backend, issued, calls, sent, mput, nput, stored>>

\* the place a manifest key names: the key itself in the manifests map, the
\* sanitized file name on disk
ManifestSlot(b, key) == IF b = "memory" THEN key ELSE Sanitize(key)

\* history of PUT manifest: the entry of the pair this PUT addresses is the
\* one it stored (none when it failed); the entry of another pair is marked
\* overwritten when this PUT addresses its place with either of its keys
RecordPut(h, b, name, reference, entry, digest_key, created) ==
    LET pair == <<name, reference>>
        mine == {ManifestSlot(b, ManifestKey(name, reference)), ManifestSlot(b, digest_key)}
        keep == IF created THEN (DOMAIN h) \cup {pair} ELSE (DOMAIN h) \ {pair}
    IN  [p \in keep |->
            IF p = pair THEN [entry |-> entry, overwritten |-> FALSE]
            ELSE IF ManifestSlot(b, ManifestKey(p[1], p[2])) \in mine
                 THEN [h[p] EXCEPT !.overwritten = TRUE]
                 ELSE h[p]]

\* faulty variant: a failure of the second store is propagated like one of
\* the first
put_manifest_Propagating(name, reference, h_content_type, body, f1, f2) ==
    LET v == IF h_content_type = None THEN None ELSE to_str(h_content_type[1])
        content_type == IF v = None THEN DefaultContentType ELSE v[1]
        digest == Sha256Digest(body)
        entry == ManifestEntry(body, content_type)
        key == ManifestKey(strip_leading_slash(name), reference)
        digest_key == ManifestKey(strip_leading_slash(name), digest)
        r1 == Storage_store_manifest(backend, storage, key, entry, f1)
        r2 == Storage_store_manifest(backend, r1.st, digest_key, entry, f2)
        q == [Request("put_manifest", name, reference, body) EXCEPT
                !.h_content_type = h_content_type]
    IN  /\ nput < MaxPuts
        /\ nput' = nput + 1
        /\ IF r1.err # "ok"
           THEN /\ storage' = r1.st
                /\ resp' = [q EXCEPT !.status = 500, !.warned = <<1>>]
           ELSE /\ storage' = r2.st
                /\ resp' = IF r2.err # "ok"
                           THEN [q EXCEPT !.status = 500, !.warned = <<2>>]
                           ELSE [q EXCEPT
                                   !.status = 201,
                                   !.Location =
                                       ManifestLocation(strip_leading_slash(name), reference),
                                   !.ContentType = content_type,
                                   !.DockerContentDigest = digest]
        /\ mput' = RecordPut(mput, backend, strip_leading_slash(name), reference, entry,
                             digest_key, r1.err = "ok")
        /\ UNCHANGED <<backend, issued, calls, sent, stored>>

\* faulty variant: the second store writes the reference key again
put_manifest_SameKey(name, reference, h_content_type, body, f1, f2) ==
    LET v == IF h_content_type = None THEN None ELSE to_str(h_content_type[1])
        content_type == IF v = None THEN DefaultContentType ELSE v[1]
        digest == Sha256Digest(body)
        entry == ManifestEntry(body, content_type)
        key == ManifestKey(strip_leading_slash(name), reference)
        r1 == Storage_store_manifest(backend, storage, key, entry, f1)
        r2 == Storage_store_manifest(backend, r1.st, key, entry, f2)
        q == [Request("put_manifest", name, reference, body) EXCEPT
                !.h_content_type = h_content_type]
    IN  /\ nput < MaxPuts
        /\ nput' = nput + 1
        /\ IF r1.err # "ok"
           THEN /\ storage' = r1.st
                /\ resp' = [q EXCEPT !.status = 500, !.warned = <<1>>]
           ELSE /\ storage' = r2.st
                /\ resp' = [q EXCEPT
                              !.status = 201,
                              !.Location =
                                  ManifestLocation(strip_leading_slash(name), reference),
                              !.ContentType = content_type,
                              !.DockerContentDigest = digest,
                              !.warned = IF r2.err # "ok" THEN <<2>> ELSE <<>>]
        /\ mput' = RecordPut(mput, backend, strip_leading_slash(name), reference, entry,
                             key, r1.err = "ok")
        /\ UNCHANGED <<backend, issued, calls, sent, stored>>

put_manifest(name, reference, h_content_type, body, f1, f2) ==
    LET v == IF h_content_type = None THEN None ELSE to_str(h_content_type[1])
        content_type == IF v = None THEN DefaultContentType ELSE v[1]
        digest == Sha256Digest(body)
        entry == ManifestEntry(body, content_type)
        key == ManifestKey(strip_leading_slash(name), reference)
        digest_key == ManifestKey(strip_leading_slash(name), digest)
        r1 == Storage_store_manifest(backend, storage, key, entry, f1)
        r2 == Storage_store_manifest(backend, r1.st, digest_key, entry, f2)
        q == [Request("put_manifest", name, reference, body) EXCEPT
                !.h_content_type = h_content_type]
    IN  /\ nput < MaxPuts
        /\ nput' = nput + 1
        /\ IF r1.err # "ok"
           THEN /\ storage' = r1.st
                /\ resp' = [q EXCEPT !.status = 500, !.warned = <<1>>]
           ELSE /\ storage' = r2.st
                /\ resp' = [q EXCEPT
                              !.status = 201,
                              !.Location =
                                  ManifestLocation(strip_leading_slash(name), reference),
                              !.ContentType = content_type,
                              !.DockerContentDigest = digest,
                              !.warned = IF r2.err # "ok" THEN <<2>> ELSE <<>>]
        /\ mput' = RecordPut(mput, backend, strip_leading_slash(name), reference, entry,
                             digest_key, r1.err = "ok")
        /\ UNCHANGED <<backend, issued, calls, sent, stored>>

get_manifest(name, reference, f) ==
    LET key == ManifestKey(strip_leading_slash(name), reference)
        r == Storage_get_manifest(backend, storage, key, f)
        q == Request("get_manifest", name, reference, <<>>)
    IN  /\ resp' = IF r.err = "ok" /\ r.val # None
                   THEN [q EXCEPT !.status = 200,
                                  !.ContentType = r.val[1].content_type,
                                  !.out = r.val[1].data]
                   ELSE [q EXCEPT !.status = 404,
                                  !.ContentType = <<116,101,120,116,47,112,108,97,105,110>>]
        /\ UNCHANGED <<backend, storage, issued, calls, sent, mput, nput, stored>>

\* faulty variant: a hit answers the digest of the body of the last PUT to
\* (name, reference) when there was one, not of the stored bytes
check_manifest_Cached(name, reference, f) ==
    LET key == ManifestKey(strip_leading_slash(name), reference)
        pair == <<strip_leading_slash(name), reference>>
        r == Storage_get_manifest(backend, storage, key, f)
        q == Request("check_manifest", name, reference, <<>>)
    IN  /\ resp' = IF r.err = "ok" /\ r.val # None
                   THEN [q EXCEPT !.status = 200,
                                  !.ContentType = r.val[1].content_type,
                                  !.DockerContentDigest =
                                      IF pair \in DOMAIN mput
                                      THEN Sha256Digest(mput[pair].entry.data)
                                      ELSE Sha256Digest(r.val[1].data)]
                   ELSE [q EXCEPT !.status = 404,
                                  !.ContentType = <<116,101,120,116,47,112,108,97,105,110>>]
        /\ UNCHANGED <<backend, storage, issued, calls, sent, mput, nput, stored>>

\* faulty variant: a miss answers the digest of no bytes
check_manifest_MissDigest(name, reference, f) ==
    LET key == ManifestKey(strip_leading_slash(name), reference)
        r == Storage_get_manifest(backend, storage, key, f)
        q == Request("check_manifest", name, reference, <<>>)
    IN  /\ resp' = IF r.err = "ok" /\ r.val # None
                   THEN [q EXCEPT !.status = 200,
                                  !.ContentType = r.val[1].content_type,
                                  !.DockerContentDigest = Sha256Digest(r.val[1].data)]
                   ELSE [q EXCEPT !.status = 404,
                                  !.ContentType = <<116,101,120,116,47,112,108,97,105,110>>,
                                  !.DockerContentDigest = Sha256Digest(<<>>)]
        /\ UNCHANGED <<backend, storage, issued, calls, sent, mput, nput, stored>>

check_manifest(name, reference, f) ==
    LET key == ManifestKey(strip_leading_slash(name), reference)
        r == Storage_get_manifest(backend, storage, key, f)
        q == Request("check_manifest", name, reference, <<>>)
    IN  /\ resp' = IF r.err = "ok" /\ r.val # None
                   THEN [q EXCEPT !.status = 200,
                                  !.ContentType = r.val[1].content_type,
                                  !.DockerContentDigest = Sha256Digest(r.val[1].data)]
                   ELSE [q EXCEPT !.status = 404,
                                  !.ContentType = <<116,101,120,116,47,112,108,97,105,110>>]
        /\ UNCHANGED <<backend, storage, issued, calls, sent, mput, nput, stored>>

(***************************************************************************)
(* Inputs of the requests                                                  *)
(***************************************************************************)
Byte == {0, 1}

\* the byte vectors of at most n bytes
Bytes(n) == UNION {[1..k -> Byte] : k \in 0..n}

Bodies == Bytes(MaxChunkLen)

\* repository names as the router hands them over: "r" and "/q"
Names == {<<114>>, <<47,113>>}

\* the ids Uuid::new_v4() returns: "u1", "u2", ...; an id is never returned
\* twice (the random 122 bits are idealised as never repeating)
Pool == {<<117, 48 + i>> : i \in 1..MaxUploads}

\* digests a client names itself: "sha256:ab" and "sha256_ab"
DQ == <<115,104,97,50,53,54,58,97,98>>

DH == <<115,104,97,50,53,54,95,97,98>>

\* "../blobs/sha256_ab", an upload id sent as ..%2Fblobs%2Fsha256_ab (the
\* Path extractor percent-decodes a path segment after routing)
TraversalId == <<46,46,47,98,108,111,98,115,47,115,104,97,50,53,54,95,97,98>>

\* upload ids in the path of PATCH and PUT: any string the client chooses
ClientUuids == Pool \cup {TraversalId}

\* digests in the path of HEAD and GET blob
ReadDigests == {DQ, DH} \cup {Sha256Digest(b) : b \in Bodies}

\* (query digest, header digest, header Docker-Content-Digest) of PUT upload
FinishDigests == {<<None, None, None>>, <<Some(DQ), None, None>>, <<None, Some(DH), None>>}

(***************************************************************************)
(* Spec: the blob and upload handlers, one request at a time, no I/O       *)
(* failure, on either backend.                                             *)
(***************************************************************************)
Init ==
    /\ backend \in {"memory", "disk"}
    /\ storage = EmptyStorage
    /\ issued = {}
    /\ sent = EmptyMap
    /\ resp = NoResponse
    /\ calls = <<>>
    /\ mput = EmptyMap
    /\ nput = 0
    /\ stored = EmptyMap

Next ==
    \/ api_version
    \/ \E name \in Names, digest \in ReadDigests : check_blob(name, digest, 0)
    \/ \E name \in Names, digest \in ReadDigests : get_blob(name, digest, 0)
    \/ \E name \in Names, uuid \in Pool : start_upload(name, uuid, 0)
    \/ \E name \in Names, uuid \in ClientUuids, body \in Bodies :
          upload_chunk(name, uuid, body, 0)
    \/ \E name \in Names, uuid \in ClientUuids, dg \in FinishDigests, body \in Bodies :
          finish_upload(name, uuid, dg[1], dg[2], dg[3], body, 0, 0)

Spec == Init /\ [][Next]_vars

(***************************************************************************)
(* Claims about the blob and upload handlers (Spec)                        *)
(***************************************************************************)
\* the blob the backend holds in the place of a digest, None when none
StoredBlob(b, st, digest) ==
    IF b = "memory" THEN Lookup(st.blobs, digest) ELSE Lookup(st.files, blob_path(digest))

\* what GET of a Location answers when the Location routes to
\* /v2/{name}/blobs/{digest}: the body of get_blob, None when no route matches
GetBlobAt(b, st, location) ==
    LET segs == Split(location, 47)
    IN  IF /\ Len(segs) = 5
           /\ segs[1] = <<>>
           /\ segs[2] = <<118,50>>
           /\ segs[3] # <<>>
           /\ segs[4] = <<98,108,111,98,115>>
           /\ segs[5] # <<>>
        THEN Storage_get_blob(b, st, segs[5], 0).val
        ELSE None

\* C1: a finish-upload on a started session, after PATCH requests with the
\* bodies c1..c(n-1) and with the trailing body cn, answers 201 and the blob
\* stored under the digest it reports is c1 ... cn in that order.
C1_ChunksConcatenated ==
    [][(resp'.op = "finish_upload" /\ resp'.arg \in DOMAIN sent)
        => /\ resp'.status = 201
           /\ StoredBlob(backend, storage', resp'.DockerContentDigest)
                 = Some(sent[resp'.arg] \o resp'.body)]_vars

C1_Witness ==
    /\ backend = "disk"
    /\ resp.op = "finish_upload"
    /\ resp.arg \in Pool
    /\ resp.status = 201
    /\ resp.body # <<>>
    /\ LET blob == StoredBlob(backend, storage, resp.DockerContentDigest)
       IN  blob # None /\ Len(blob[1]) = 3 /\ blob[1][1] # blob[1][2]

\* C3: PATCH on an upload id with no session (never started, or finished)
\* answers 404 with Location, Range and Docker-Upload-UUID empty, creates no
\* session and leaves the storage as it was.
C3_ChunkUnknownUpload ==
    [][(resp'.op = "upload_chunk" /\ resp'.arg \notin DOMAIN sent)
        => /\ resp'.status = 404
           /\ resp'.Location = <<>> /\ resp'.Range = <<>> /\ resp'.DockerUploadUUID = <<>>
           /\ PeekUpload(backend, storage', resp'.arg) = None
           /\ storage' = storage]_vars

\* C4: PUT finish on an upload id with no session answers 404 with Location
\* and Docker-Content-Digest empty and leaves the blob store as it was.
C4_FinishUnknownUpload ==
    [][(resp'.op = "finish_upload" /\ resp'.arg \notin DOMAIN sent)
        => /\ resp'.status = 404
           /\ resp'.Location = <<>> /\ resp'.DockerContentDigest = <<>>
           /\ storage' = storage]_vars

C10_ComputedDigest ==
    [][(/\ resp'.op = "finish_upload"
        /\ resp'.arg \in DOMAIN sent
        /\ resp'.status = 201
        /\ resp'.digest = None /\ resp'.h_digest = None /\ resp'.h_dcd = None)
        => LET data == sent[resp'.arg] \o resp'.body
               digest == Sha256Digest(data)
           IN  /\ resp'.DockerContentDigest = digest
               /\ resp'.Location =
                     <<47,118,50,47>> \o strip_leading_slash(resp'.name)
                         \o <<47,98,108,111,98,115,47>> \o digest
               /\ StoredBlob(backend, storage', digest) = Some(data)
               /\ GetBlobAt(backend, storage', resp'.Location) = Some(data)]_vars

C10_Witness ==
    /\ resp.op = "finish_upload"
    /\ resp.arg \in Pool
    /\ resp.status = 201
    /\ resp.digest = None /\ resp.h_digest = None /\ resp.h_dcd = None
    /\ resp.name = <<47,113>>
    /\ Len(resp.DockerContentDigest) > 7
    /\ GetBlobAt(backend, storage, resp.Location) # None
    /\ Len(GetBlobAt(backend, storage, resp.Location)[1]) = 2

(***************************************************************************)
(* SpecDigest: finish-upload with every combination of the three places a  *)
(* client can name the digest in.                                          *)
(***************************************************************************)
\* "sha256:cd"
DD == <<115,104,97,50,53,54,58,99,100>>

\* a header value that is not visible ASCII: the byte 0xff
NotAscii == <<255>>

QueryDigests == {None, Some(DQ)}

HeaderDigests == {None, Some(DH), Some(NotAscii)}

HeaderDcds == {None, Some(DD), Some(NotAscii)}

NextDigest ==
    \/ \E uuid \in Pool : start_upload(<<114>>, uuid, 0)
    \/ \E uuid \in Pool, body \in Bodies : upload_chunk(<<114>>, uuid, body, 0)
    \/ \E uuid \in Pool, digest \in QueryDigests, h_digest \in HeaderDigests,
          h_dcd \in HeaderDcds, body \in Bodies :
          finish_upload(<<114>>, uuid, digest, h_digest, h_dcd, body, 0, 0)

SpecDigest == Init /\ [][NextDigest]_vars

\* C9: finish-upload stores the blob under the query digest if present, else
\* under the header digest if present, else under the header
\* Docker-Content-Digest if present, else under the SHA-256 digest of the
\* assembled bytes.
C9_DigestPrecedence ==
    (resp.op = "finish_upload" /\ resp.status = 201)
        => LET blob == StoredBlob(backend, storage, resp.DockerContentDigest)
           IN  /\ blob # None
               /\ resp.DockerContentDigest =
                     IF resp.digest # None THEN resp.digest[1]
                     ELSE IF resp.h_digest # None THEN resp.h_digest[1]
                     ELSE IF resp.h_dcd # None THEN resp.h_dcd[1]
                     ELSE Sha256Digest(blob[1])

(***************************************************************************)
(* SpecManifest: the manifest handlers, one request at a time; on disk a   *)
(* store of PUT manifest may fail.                                         *)
(***************************************************************************)
\* references: "latest", the digest of the body <<0>>, and that digest with
\* its ':' written '_'
ManifestRefs ==
    {<<108,97,116,101,115,116>>, Sha256Digest(<<0>>), Sanitize(Sha256Digest(<<0>>))}

ManifestBodies == {<<0>>, <<1>>}

\* the content-type header: absent, or "t"
ContentTypes == {None, Some(<<116>>)}

\* the failing file-system call of the first and of the second store
PutFaults(b) ==
    IF b = "disk" THEN {<<0, 0>>, <<0, 1>>, <<0, 2>>, <<1, 0>>, <<2, 0>>} ELSE {<<0, 0>>}

NextManifest ==
    \/ \E name \in Names, reference \in ManifestRefs, h \in ContentTypes,
          body \in ManifestBodies, f \in PutFaults(backend) :
          put_manifest(name, reference, h, body, f[1], f[2])
    \/ \E name \in Names, reference \in ManifestRefs : get_manifest(name, reference, 0)
    \/ \E name \in Names, reference \in ManifestRefs : check_manifest(name, reference, 0)

SpecManifest == Init /\ [][NextManifest]_vars

\* what GET and HEAD manifest must answer for a pair whose last PUT stored e
AnswersEntry(e) ==
    /\ resp.status = 200
    /\ resp.ContentType = e.content_type
    /\ resp.op = "get_manifest" => resp.out = e.data
    /\ resp.op = "check_manifest" => resp.DockerContentDigest = Sha256Digest(e.data)

ReadsPair ==
    /\ resp.op \in {"get_manifest", "check_manifest"}
    /\ <<strip_leading_slash(resp.name), resp.arg>> \in DOMAIN mput

\* C5 as claimed: after a PUT manifest for (name, reference) with body M and
\* content-type T answered 201, until the next PUT to the same (name,
\* reference), GET answers 200 with M and T and HEAD 200 with the digest of
\* M, the digest the PUT reported.
C5_Original ==
    /\ ReadsPair => AnswersEntry(mput[<<strip_leading_slash(resp.name), resp.arg>>].entry)
    /\ (resp.op = "put_manifest" /\ resp.status = 201)
          => resp.DockerContentDigest = Sha256Digest(resp.body)

\* C5 as amended: the same, until the next PUT manifest that addresses the
\* place of name:reference with its reference key or with its digest key.
C5_UntilOverwritten ==
    /\ (ReadsPair /\ ~mput[<<strip_leading_slash(resp.name), resp.arg>>].overwritten)
          => AnswersEntry(mput[<<strip_leading_slash(resp.name), resp.arg>>].entry)
    /\ (resp.op = "put_manifest" /\ resp.status = 201)
          => resp.DockerContentDigest = Sha256Digest(resp.body)

C5_Witness ==
    /\ backend = "disk"
    /\ resp.op = "check_manifest"
    /\ resp.status = 200
    /\ ReadsPair
    /\ ~mput[<<strip_leading_slash(resp.name), resp.arg>>].overwritten
    /\ mput[<<strip_leading_slash(resp.name), resp.arg>>].entry.content_type = <<116>>
    /\ Cardinality(DOMAIN mput) = 2

\* C6: after a PUT manifest whose two stores succeeded, GET by the digest of
\* the body returns the body and the content type of the PUT, the same entry
\* GET by the reference returns.
C6_DigestKeyResolves ==
    (resp.op = "put_manifest" /\ resp.status = 201 /\ resp.warned = <<>>)
        => LET name == strip_leading_slash(resp.name)
               byref == Storage_get_manifest(backend, storage,
                                             ManifestKey(name, resp.arg), 0).val
               bydigest == Storage_get_manifest(backend, storage,
                               ManifestKey(name, Sha256Digest(resp.body)), 0).val
           IN  /\ bydigest = Some(ManifestEntry(resp.body, resp.ContentType))
               /\ byref = bydigest

C6_Witness ==
    /\ backend = "disk"
    /\ resp.op = "put_manifest"
    /\ resp.status = 201
    /\ resp.warned = <<>>
    /\ resp.arg = <<108,97,116,101,115,116>>
    /\ resp.h_content_type # None
    /\ nput = 2

(***************************************************************************)
(* SpecStorage: calls of the blob operations of the Storage trait, one at  *)
(* a time, with no I/O failure.                                            *)
(***************************************************************************)
\* digests: "sha256:ab", "sha256_ab" and the digest of the empty blob
StoreDigests == {DQ, DH, Sha256Digest(<<>>)}

\* storage.store_blob(digest, data).await
call_store_blob(digest, data) ==
    LET r == Storage_store_blob(backend, storage, digest, data, 0)
    IN  /\ storage' = r.st
        /\ stored' = IF r.err = "ok" THEN Put(stored, digest, data) ELSE stored
        /\ resp' = [Request("Storage::store_blob", <<>>, digest, data) EXCEPT
                      !.warned = IF r.err = "ok" THEN <<>> ELSE <<1>>]
        /\ UNCHANGED <<backend, issued, calls, sent, mput, nput>>

\* storage.get_blob(digest).await: out is the Option it returns
call_get_blob(digest) ==
    LET r == Storage_get_blob(backend, storage, digest, 0)
    IN  /\ resp' = [Request("Storage::get_blob", <<>>, digest, <<>>) EXCEPT
                      !.out = r.val,
                      !.warned = IF r.err = "ok" THEN <<>> ELSE <<1>>]
        /\ UNCHANGED <<backend, storage, issued, calls, sent, mput, nput, stored>>

NextStorage ==
    \/ \E digest \in StoreDigests, data \in Bodies : call_store_blob(digest, data)
    \/ \E digest \in StoreDigests : call_get_blob(digest)

SpecStorage == Init /\ [][NextStorage]_vars

\* C7: get_blob(d) returns the bytes of the most recent store_blob(d, .) and
\* none if d was never stored.
C7_BlobRoundTrip ==
    resp.op = "Storage::get_blob" => resp.out = Lookup(stored, resp.arg)

(***************************************************************************)
(* SpecConc: append_upload and finish_upload calls on one upload id by     *)
(* concurrent tasks. A MemoryStorage call is one step (it holds the write  *)
(* lock of the uploads map throughout); a DiskStorage call is one step per *)
(* file-system call, and the tasks interleave between them.                *)
(***************************************************************************)
\* number of concurrent tasks
MaxTasks == 3

Tasks == 1..MaxTasks

\* the one upload id of this specification, "u1"
TheUpload == <<117,49>>

Idle == [op |-> "idle", pc |-> "idle", data |-> <<>>, existing |-> <<>>,
         err |-> "", val |-> None, late |-> FALSE, status |-> 0,
         arg |-> <<>>, stage |-> 0, lock |-> "none"]

InitConc ==
    /\ backend \in {"memory", "disk"}
    /\ storage = EmptyStorage
    /\ issued = {}
    /\ sent = EmptyMap
    /\ resp = NoResponse
    /\ calls = [t \in Tasks |-> Idle]
    /\ mput = EmptyMap
    /\ nput = 0
    /\ stored = EmptyMap

\* a finish_upload call has returned the session's bytes
Consumed == \E t \in Tasks : calls[t].op = "finish" /\ calls[t].pc = "done" /\ calls[t].val # None

Return(t, err, val) == [calls EXCEPT ![t].pc = "done", ![t].err = err, ![t].val = val]

\* storage.create_upload(uuid).await, once, before any other call
conc_create ==
    /\ issued = {}
    /\ issued' = {TheUpload}
    /\ storage' = Storage_create_upload(backend, storage, TheUpload, 0).st
    /\ UNCHANGED <<backend, resp, calls, sent, mput, nput, stored>>

\* a task calls append_upload(uuid, data) or finish_upload(uuid); late says
\* that the call starts after a finish_upload has returned the bytes
conc_call(t, op, data) ==
    /\ issued # {}
    /\ calls[t].op = "idle"
    /\ calls' = [calls EXCEPT ![t] = [Idle EXCEPT !.op = op, !.pc = "exists",
                                                  !.data = data, !.late = Consumed]]
    /\ UNCHANGED <<backend, storage, issued, resp, sent, mput, nput, stored>>

conc_memory(t) ==
    /\ backend = "memory"
    /\ calls[t].pc = "exists"
    /\ LET r == IF calls[t].op = "append"
                THEN MemoryStorage_append_upload(storage, TheUpload, calls[t].data)
                ELSE MemoryStorage_finish_upload(storage, TheUpload)
       IN  /\ storage' = r.st
           /\ calls' = Return(t, r.err, r.val)
    /\ UNCHANGED <<backend, issued, resp, sent, mput, nput, stored>>

\* upload_path.exists()
conc_disk_exists(t) ==
    /\ backend = "disk"
    /\ calls[t].pc = "exists"
    /\ calls' = IF upload_path(TheUpload) \in DOMAIN storage.files
                THEN [calls EXCEPT ![t].pc = "read"]
                ELSE IF calls[t].op = "append" THEN Return(t, "notfound", None)
                ELSE Return(t, "ok", None)
    /\ UNCHANGED <<backend, storage, issued, resp, sent, mput, nput, stored>>

\* fs::read(&upload_path).await?
conc_disk_read(t) ==
    /\ backend = "disk"
    /\ calls[t].pc = "read"
    /\ calls' = IF upload_path(TheUpload) \in DOMAIN storage.files
                THEN [calls EXCEPT
                        ![t].existing = storage.files[upload_path(TheUpload)],
                        ![t].pc = IF calls[t].op = "append" THEN "write" ELSE "remove"]
                ELSE Return(t, "io", None)
    /\ UNCHANGED <<backend, storage, issued, resp, sent, mput, nput, stored>>

\* faulty variant: the bytes read are written back without the chunk
conc_disk_write_NoExtend(t) ==
    /\ backend = "disk"
    /\ calls[t].pc = "write"
    /\ storage' = [storage EXCEPT
                     !.files = Put(@, upload_path(TheUpload), calls[t].existing)]
    /\ calls' = Return(t, "ok", None)
    /\ UNCHANGED <<backend, issued, resp, sent, mput, nput, stored>>

\* existing.extend_from_slice(data); fs::write(&upload_path, &existing).await?
conc_disk_write(t) ==
    /\ backend = "disk"
    /\ calls[t].pc = "write"
    /\ storage' = [storage EXCEPT
                     !.files = Put(@, upload_path(TheUpload),
                                   calls[t].existing \o calls[t].data)]
    /\ calls' = Return(t, "ok", None)
    /\ UNCHANGED <<backend, issued, resp, sent, mput, nput, stored>>

\* faulty variant: the result of remove_file is dropped
conc_disk_remove_Ignoring(t) ==
    /\ backend = "disk"
    /\ calls[t].pc = "remove"
    /\ storage' = [storage EXCEPT !.files = Del(@, upload_path(TheUpload))]
    /\ calls' = Return(t, "ok", Some(calls[t].existing))
    /\ UNCHANGED <<backend, issued, resp, sent, mput, nput, stored>>

\* fs::remove_file(&upload_path).await?; Ok(Some(data))
conc_disk_remove(t) ==
    /\ backend = "disk"
    /\ calls[t].pc = "remove"
    /\ IF upload_path(TheUpload) \in DOMAIN storage.files
       THEN /\ storage' = [storage EXCEPT !.files = Del(@, upload_path(TheUpload))]
            /\ calls' = Return(t, "ok", Some(calls[t].existing))
       ELSE /\ storage' = storage
            /\ calls' = Return(t, "io", None)
    /\ UNCHANGED <<backend, issued, resp, sent, mput, nput, stored>>

NextConc ==
    \/ conc_create
    \/ \E t \in Tasks, data \in Bodies : conc_call(t, "append", data)
    \/ \E t \in Tasks : conc_call(t, "finish", <<>>)
    \/ \E t \in Tasks : conc_memory(t)
    \/ \E t \in Tasks : conc_disk_exists(t)
    \/ \E t \in Tasks : conc_disk_read(t)
    \/ \E t \in Tasks : conc_disk_write(t)
    \/ \E t \in Tasks : conc_disk_remove(t)

SpecConc == InitConc /\ [][NextConc]_vars

\* C2: a session is consumed exactly once: at most one finish_upload call
\* returns its bytes, and every call that starts after one has returned them
\* finds no session (append_upload fails with upload-not-found,
\* finish_upload returns none).
C2_ConsumedOnce ==
    /\ Cardinality({t \in Tasks : /\ calls[t].op = "finish"
                                  /\ calls[t].pc = "done"
                                  /\ calls[t].val # None}) <= 1
    /\ \A t \in Tasks :
          (calls[t].pc = "done" /\ calls[t].late)
              => IF calls[t].op = "append" THEN calls[t].err = "notfound"
                 ELSE calls[t].err = "ok" /\ calls[t].val = None

(***************************************************************************)
(* The blob store as a whole (Spec)                                        *)
(***************************************************************************)
\* the blobs the backend holds, by the place that holds them: the key of the
\* blobs map, the file name under blobs/
StoredBlobs(b, st) ==
    IF b = "memory" THEN st.blobs
    ELSE [p \in {q \in DOMAIN st.files : Len(q) = 2 /\ q[1] = <<98,108,111,98,115>>}
            |-> st.files[p]]

\* the place of a digest: the digest in the blobs map, its file on disk
BlobPlace(b, digest) == IF b = "memory" THEN digest ELSE blob_path(digest)

\* C11: in every state the handlers reach, every blob of the store is held
\* in the place of sha256:<hex SHA-256 of its own bytes>.
C11_DigestCorrect ==
    \A p \in DOMAIN StoredBlobs(backend, storage) :
        p = BlobPlace(backend, Sha256Digest(StoredBlobs(backend, storage)[p]))

(***************************************************************************)
(* SpecUpload: the version check and the upload handlers, one request at a *)
(* time, with several sessions; on disk a file-system call of a handler's  *)
(* storage call may fail.                                                  *)
(***************************************************************************)
\* number of upload ids Uuid::new_v4() hands out in SpecUpload
MaxStarts == 2

\* "u1", "u2", ...
StartPool == {<<117, 48 + i>> : i \in 1..MaxStarts}

\* the bodies of PATCH upload-chunk: up to a whole session in one chunk
ChunkBodies == Bytes(MaxUploadLen)

\* the failing file-system call of a storage call with n of them (0: none);
\* MemoryStorage does not fail
Faults(b, n) == IF b = "disk" THEN 0..n ELSE {0}

NextUpload ==
    \/ api_version
    \/ \E name \in Names, uuid \in StartPool, f \in Faults(backend, 1) :
          start_upload(name, uuid, f)
    \/ \E name \in Names, uuid \in StartPool, body \in ChunkBodies, f \in Faults(backend, 2) :
          upload_chunk(name, uuid, body, f)
    \/ \E name \in Names, uuid \in StartPool, body \in Bodies,
          f1 \in Faults(backend, 2), f2 \in Faults(backend, 1) :
          finish_upload(name, uuid, None, None, None, body, f1, f2)

SpecUpload == Init /\ [][NextUpload]_vars

\* C12: upload-chunk and finish-upload answer 404 exactly when the session
\* does not exist; on a session that exists they answer 202 / 201, the
\* storage calls having taken effect, or 500, a storage call having failed.
C12_ErrorKinds ==
    [][(resp'.op \in {"upload_chunk", "finish_upload"})
        => LET held == PeekUpload(backend, storage, resp'.arg)
               now == PeekUpload(backend, storage', resp'.arg)
           IN  IF held = None THEN resp'.status = 404
               ELSE \/ resp'.status = 500
                    \/ /\ resp'.op = "upload_chunk"
                       /\ resp'.status = 202
                       /\ now = Some(held[1] \o resp'.body)
                    \/ /\ resp'.op = "finish_upload"
                       /\ resp'.status = 201
                       /\ now = None
                       /\ StoredBlob(backend, storage', resp'.DockerContentDigest)
                             = Some(held[1] \o resp'.body)]_vars

(***************************************************************************)
(* The two stores of PUT manifest (SpecManifest)                           *)
(***************************************************************************)
\* the manifest the backend holds in the place of a key: the entry of the
\* manifests map; on disk the data file and its sidecar, None when there is
\* no data file
StoredManifest(b, st, key) ==
    IF b = "memory" THEN Lookup(st.manifests, key)
    ELSE IF manifest_path(key) \notin DOMAIN st.files THEN None
    ELSE Some(ManifestEntry(st.files[manifest_path(key)],
                            IF manifest_meta_path(key) \in DOMAIN st.files
                            THEN st.files[manifest_meta_path(key)]
                            ELSE DefaultContentType))

\* every place but the one of key holds what it held
OnlyPlaceOf(key, st, st2) ==
    /\ \A k \in (DOMAIN st.manifests \cup DOMAIN st2.manifests) \ {key} :
          Lookup(st.manifests, k) = Lookup(st2.manifests, k)
    /\ \A p \in (DOMAIN st.files \cup DOMAIN st2.files)
                   \ {manifest_path(key), manifest_meta_path(key)} :
          Lookup(st.files, p) = Lookup(st2.files, p)

\* C13: a PUT manifest whose store under name:reference failed (warned 1)
\* answers 500 with Location, Content-Type and Docker-Content-Digest empty
\* and writes no place but the one of name:reference; one whose store
\* under name:digest failed (warned 2) answers 201 with the headers of a
\* successful put, and GET by reference returns the new manifest.
C13_StoresAsymmetric ==
    [][(resp'.op = "put_manifest")
        => LET name == IF resp'.name[1] = 47 THEN Tail(resp'.name) ELSE resp'.name
               content_type == IF resp'.h_content_type = None THEN DefaultContentType
                               ELSE resp'.h_content_type[1]
               key == name \o <<58>> \o resp'.arg
           IN  /\ resp'.warned = <<1>>
                    => /\ resp'.status = 500
                       /\ resp'.Location = <<>>
                       /\ resp'.ContentType = <<>>
                       /\ resp'.DockerContentDigest = <<>>
                       /\ OnlyPlaceOf(key, storage, storage')
               /\ resp'.warned # <<1>>
                    => /\ resp'.status = 201
                       /\ resp'.Location =
                             <<47,118,50,47>> \o name
                                 \o <<47,109,97,110,105,102,101,115,116,115,47>> \o resp'.arg
                       /\ resp'.ContentType = content_type
                       /\ resp'.DockerContentDigest = Sha256Digest(resp'.body)
                       /\ StoredManifest(backend, storage', key)
                             = Some(ManifestEntry(resp'.body, content_type))]_vars

C13_Witness ==
    /\ resp.op = "put_manifest"
    /\ resp.warned = <<2>>
    /\ resp.status = 201
    /\ resp.arg = <<108,97,116,101,115,116>>
    /\ resp.h_content_type # None
    /\ StoredManifest(backend, storage, <<114,58>> \o resp.DockerContentDigest)
          # StoredManifest(backend, storage, <<114,58>> \o resp.arg)
    /\ resp.name = <<114>>

(***************************************************************************)
(* SpecBoth: a MemoryStorage and a DiskStorage receive the same calls of   *)
(* the Storage trait, one at a time, with no I/O failure. The maps of      *)
(* storage are the MemoryStorage, its files the DiskStorage.               *)
(***************************************************************************)
\* manifest keys: "r:sha256:ab" and "r:sha256_ab"
BothKeys == {ManifestKey(<<114>>, DQ), ManifestKey(<<114>>, DH)}

\* manifest entries: the body <<0>> with content type "t", <<1>> with "u"
BothEntries == {ManifestEntry(<<0>>, <<116>>), ManifestEntry(<<1>>, <<117>>)}

\* blob contents
BothBlobs == {<<0>>, <<1>>}

\* what one call returned on each backend
Both(op, arg, m, d) ==
    [op |-> op, arg |-> arg,
     memory |-> [err |-> m.err, val |-> m.val],
     disk |-> [err |-> d.err, val |-> d.val]]

InitBoth ==
    /\ backend = "both"
    /\ storage = EmptyStorage
    /\ issued = {}
    /\ sent = EmptyMap
    /\ resp = NoResponse
    /\ calls = <<>>
    /\ mput = EmptyMap
    /\ nput = 0
    /\ stored = EmptyMap

\* the call on the MemoryStorage, then the same call on the DiskStorage
BothCall(op, arg, m, d) ==
    /\ storage' = [m.st EXCEPT !.files = d.st.files]
    /\ resp' = Both(op, arg, m, d)
    /\ UNCHANGED <<backend, issued, calls, sent, mput, nput, stored>>

both_store_manifest(key, entry) ==
    BothCall("Both::store_manifest", key,
             MemoryStorage_store_manifest(storage, key, entry),
             DiskStorage_store_manifest(storage, key, entry, 0))

both_get_manifest(key) ==
    BothCall("Both::get_manifest", key,
             MemoryStorage_get_manifest(storage, key),
             DiskStorage_get_manifest(storage, key, 0))

both_store_blob(digest, data) ==
    BothCall("Both::store_blob", digest,
             MemoryStorage_store_blob(storage, digest, data),
             DiskStorage_store_blob(storage, digest, data, 0))

both_get_blob(digest) ==
    BothCall("Both::get_blob", digest,
             MemoryStorage_get_blob(storage, digest),
             DiskStorage_get_blob(storage, digest, 0))

both_create_upload(uuid) ==
    BothCall("Both::create_upload", uuid,
             MemoryStorage_create_upload(storage, uuid),
             DiskStorage_create_upload(storage, uuid, 0))

both_append_upload(uuid, data) ==
    /\ \A b \in {"memory", "disk"} :
          PeekUpload(b, storage, uuid) # None
              => Len(PeekUpload(b, storage, uuid)[1]) + Len(data) <= MaxUploadLen
    /\ BothCall("Both::append_upload", uuid,
                MemoryStorage_append_upload(storage, uuid, data),
                DiskStorage_append_upload(storage, uuid, data, 0))

both_finish_upload(uuid) ==
    BothCall("Both::finish_upload", uuid,
             MemoryStorage_finish_upload(storage, uuid),
             DiskStorage_finish_upload(storage, uuid, 0))

NextBoth ==
    \/ \E key \in BothKeys, entry \in BothEntries : both_store_manifest(key, entry)
    \/ \E key \in BothKeys : both_get_manifest(key)
    \/ \E digest \in {DQ, DH}, data \in BothBlobs : both_store_blob(digest, data)
    \/ \E digest \in {DQ, DH} : both_get_blob(digest)
    \/ \E uuid \in Pool : both_create_upload(uuid)
    \/ \E uuid \in Pool, data \in Bodies : both_append_upload(uuid, data)
    \/ \E uuid \in Pool : both_finish_upload(uuid)

SpecBoth == InitBoth /\ [][NextBoth]_vars

\* C14: each call of the storage interface returns on the disk backend what
\* it returns on the memory backend.
C14_BackendsAgree ==
    resp.op # "none" => resp.disk = resp.memory

(***************************************************************************)
(* Claims about start-upload, the version check and the Range header       *)
(* (SpecUpload)                                                            *)
(***************************************************************************)
\* "/v2/<name>/blobs/uploads/<id>", name without its leading slash
ExpectedUploadLocation(name, id) ==
    <<47,118,50,47>> \o (IF name # <<>> /\ name[1] = 47 THEN Tail(name) ELSE name)
        \o <<47,98,108,111,98,115,47,117,112,108,111,97,100,115,47>> \o id

\* C15: start-upload answers 202 with Location /v2/<name>/blobs/uploads/<id>
\* for an id no session has, and leaves one new, empty session for that id
\* and everything else as it was; when create_upload fails (disk only) it
\* answers 500 with an empty Location.
C15_StartUpload ==
    [][(resp'.op = "start_upload")
        => LET id == resp'.arg
           IN  \/ /\ resp'.status = 202
                  /\ resp'.Location = ExpectedUploadLocation(resp'.name, id)
                  /\ PeekUpload(backend, storage, id) = None
                  /\ PeekUpload(backend, storage', id) = Some(<<>>)
                  /\ storage'.manifests = storage.manifests
                  /\ storage'.blobs = storage.blobs
                  /\ \A u \in (DOMAIN storage.uploads \cup DOMAIN storage'.uploads) \ {id} :
                        Lookup(storage'.uploads, u) = Lookup(storage.uploads, u)
                  /\ \A p \in (DOMAIN storage.files \cup DOMAIN storage'.files)
                                 \ {<<<<117,112,108,111,97,100,115>>, id>>} :
                        Lookup(storage'.files, p) = Lookup(storage.files, p)
               \/ /\ backend = "disk"
                  /\ resp'.status = 500
                  /\ resp'.Location = <<>>
                  /\ PeekUpload(backend, storage', id) = None]_vars

\* a second session is started while the first holds bytes and a blob is
\* stored
C15_Witness ==
    /\ resp.op = "start_upload"
    /\ resp.status = 202
    /\ resp.name = <<47,113>>
    /\ \E u \in StartPool \ {resp.arg} :
          /\ PeekUpload(backend, storage, u) # None
          /\ PeekUpload(backend, storage, u)[1] # <<>>
    /\ PeekUpload(backend, storage, resp.arg) = Some(<<>>)

\* C16: GET /v2/ answers 200 with the version "registry/2.0" in every state,
\* whatever was stored or failed before, and changes nothing.
C16_ApiVersion ==
    [][(resp'.op = "api_version")
        => /\ resp'.status = 200
           /\ resp'.out = <<114,101,103,105,115,116,114,121,47,50,46,48>>
           /\ storage' = storage]_vars

\* the version check after a finish-upload whose store_blob failed: the
\* session is gone and no blob is stored
C16_Witness ==
    /\ resp.op = "api_version"
    /\ resp.status = 200
    /\ backend = "disk"
    /\ issued # {}
    /\ storage.files = EmptyMap
    /\ DOMAIN sent = {}

\* C19: a PATCH that answers 202 for a body of length L carries Range 0-(L-1),
\* 0-0 when L = 0, whatever the session already holds, Docker-Upload-UUID
\* the id and Location /v2/<name>/blobs/uploads/<id>.
C19_RangeOfChunk ==
    (resp.op = "upload_chunk" /\ resp.status = 202)
        => /\ resp.Range = <<48,45>> \o (IF Len(resp.body) = 0 THEN <<48>>
                                         ELSE ToDec(Len(resp.body) - 1))
           /\ resp.DockerUploadUUID = resp.arg
           /\ resp.Location = ExpectedUploadLocation(resp.name, resp.arg)

\* a chunk of one byte appended to a session that held one byte
C19_Witness ==
    /\ resp.op = "upload_chunk"
    /\ resp.status = 202
    /\ Len(resp.body) = 1
    /\ PeekUpload(backend, storage, resp.arg) # None
    /\ Len(PeekUpload(backend, storage, resp.arg)[1]) = 2
    /\ resp.Range = <<48,45,48>>

(***************************************************************************)
(* Claims about HEAD manifest (SpecManifest)                               *)
(***************************************************************************)
\* the key HEAD and GET manifest look up for the request of resp
RespKey ==
    (IF resp.name # <<>> /\ resp.name[1] = 47 THEN Tail(resp.name) ELSE resp.name)
        \o <<58>> \o resp.arg

\* C17: HEAD manifest answers 200 exactly when an entry is stored under
\* name:reference, and then its Docker-Content-Digest is the SHA-256 digest
\* of the bytes stored there now, the body GET returns.
C17_HeadDigestCurrent ==
    resp.op = "check_manifest"
        => LET m == StoredManifest(backend, storage, RespKey)
           IN  IF m = None THEN resp.status = 404
               ELSE /\ resp.status = 200
                    /\ resp.DockerContentDigest = Sha256Digest(m[1].data)

\* HEAD of a reference whose bytes a PUT to another reference replaced
C17_Witness ==
    /\ resp.op = "check_manifest"
    /\ resp.status = 200
    /\ ReadsPair
    /\ mput[<<strip_leading_slash(resp.name), resp.arg>>].overwritten
    /\ resp.DockerContentDigest
          # Sha256Digest(mput[<<strip_leading_slash(resp.name), resp.arg>>].entry.data)

\* C18 as claimed: HEAD manifest with no stored entry answers 404 with the
\* Content-Type and the Docker-Content-Digest header values empty.
C18_Original ==
    (resp.op = "check_manifest" /\ StoredManifest(backend, storage, RespKey) = None)
        => /\ resp.status = 404
           /\ resp.ContentType = <<>>
           /\ resp.DockerContentDigest = <<>>

\* C18 as amended: it answers 404 with Content-Type text/plain and an empty
\* Docker-Content-Digest.
C18_MissHeaders ==
    (resp.op = "check_manifest" /\ StoredManifest(backend, storage, RespKey) = None)
        => /\ resp.status = 404
           /\ resp.ContentType = <<116,101,120,116,47,112,108,97,105,110>>
           /\ resp.DockerContentDigest = <<>>

\* a miss on a store that holds manifests
C18_Witness ==
    /\ resp.op = "check_manifest"
    /\ resp.status = 404
    /\ StoredManifest(backend, storage, RespKey) = None
    /\ nput = 2
    /\ \E p \in DOMAIN mput : p[1] = strip_leading_slash(resp.name)

(***************************************************************************)
(* SpecFinish: two finish-upload requests for one upload id, handled       *)
(* concurrently, after the session was created and filled. The handler     *)
(* awaits storage.finish_upload (one step on memory, one per file-system   *)
(* call on disk), then stores the blob and answers.                        *)
(***************************************************************************)
\* the tasks of the two requests
FinishTasks == {1, 2}

\* append_upload(uuid, data), completed before the finish-upload requests
conc_fill(data) ==
    /\ issued # {}
    /\ \A t \in Tasks : calls[t].op = "idle"
    /\ PeekUpload(backend, storage, TheUpload) # None
    /\ Len(PeekUpload(backend, storage, TheUpload)[1]) + Len(data) <= MaxUploadLen
    /\ storage' = Storage_append_upload(backend, storage, TheUpload, data, 0).st
    /\ UNCHANGED <<backend, issued, resp, calls, sent, mput, nput, stored>>

\* the rest of the finish_upload handler (empty body, no digest named):
\* Ok(Some(data)) is stored under its digest and answered 201, anything else
\* is answered 404
conc_respond(t) ==
    /\ calls[t].op = "finish"
    /\ calls[t].pc = "done"
    /\ IF calls[t].err = "ok" /\ calls[t].val # None
       THEN /\ storage' = Storage_store_blob(backend, storage,
                                             Sha256Digest(calls[t].val[1]),
                                             calls[t].val[1], 0).st
            /\ calls' = [calls EXCEPT ![t].pc = "responded", ![t].status = 201]
       ELSE /\ storage' = storage
            /\ calls' = [calls EXCEPT ![t].pc = "responded", ![t].status = 404]
    /\ UNCHANGED <<backend, issued, resp, sent, mput, nput, stored>>

NextFinish ==
    \/ conc_create
    \/ \E data \in Bodies : conc_fill(data)
    \/ \E t \in FinishTasks : conc_call(t, "finish", <<>>)
    \/ \E t \in FinishTasks : conc_memory(t)
    \/ \E t \in FinishTasks : conc_disk_exists(t)
    \/ \E t \in FinishTasks : conc_disk_read(t)
    \/ \E t \in FinishTasks : conc_disk_remove(t)
    \/ \E t \in FinishTasks : conc_respond(t)

SpecFinish == InitConc /\ [][NextFinish]_vars

Appended == {t \in Tasks : calls[t].op = "append" /\ calls[t].pc = "done"
                              /\ calls[t].err = "ok"}

\* C22: on disk, after two concurrent append_upload calls with chunks a and
\* b on a new session both returned Ok (and no other call was made), the
\* session holds a b, b a, or only a or only b: the later write can replace
\* the earlier one, it never produces anything else.
C22_LastWriterWins ==
    (backend = "disk" /\ Cardinality(Appended) = 2
        /\ \A t \in Tasks \ Appended : calls[t].op = "idle")
        => \E t1 \in Appended : \E t2 \in Appended \ {t1} :
              LET a == calls[t1].data
                  b == calls[t2].data
              IN  PeekUpload(backend, storage, TheUpload) \in {Some(a \o b), Some(b)}

\* both appends returned Ok and the session holds one of the two chunks only
C22_Witness ==
    /\ backend = "disk"
    /\ Cardinality(Appended) = 2
    /\ \A t \in Tasks \ Appended : calls[t].op = "idle"
    /\ \A t \in Appended : Len(calls[t].data) = 1
    /\ \E t1 \in Appended : \E t2 \in Appended \ {t1} : calls[t1].data # calls[t2].data
    /\ PeekUpload(backend, storage, TheUpload) # None
    /\ Len(PeekUpload(backend, storage, TheUpload)[1]) = 1

(***************************************************************************)
(* SpecMem: concurrent requests on the memory backend, with the three      *)
(* tokio RwLocks of MemoryStorage. A task runs one handler; each storage   *)
(* call of the handler awaits the lock of its map (mem_acquire), works on  *)
(* the map under the lock and drops the guard when it returns (mem_step).  *)
(* stage counts the handler's storage calls; lock names the map whose      *)
(* guard the task holds.                                                   *)
(***************************************************************************)
\* chunks of PATCH requests: one byte and two bytes
MemChunks == {<<0>>, <<1, 1>>}

\* the manifest of the PUT requests and its Content-Type "t"
MemManifest == ManifestEntry(<<0>>, <<116>>)

\* references of manifest requests: "latest" and the digest of the manifest
MemRefs == {<<108,97,116,101,115,116>>, Sha256Digest(MemManifest.data)}

InitMem == InitConc /\ backend = "memory"

\* the map a task's storage call works on
WantedMap(c) ==
    IF c.op \in {"put", "get"} THEN "manifests"
    ELSE IF c.op = "finish" /\ c.stage = 2 THEN "blobs"
    ELSE "uploads"

\* the tasks that hold the write guard, the read guard of a map
Writers(m) == {t \in Tasks : calls[t].lock = m /\ calls[t].op # "get"}

Readers(m) == {t \in Tasks : calls[t].lock = m /\ calls[t].op = "get"}

\* faulty variant: every call takes the lock shared
CanAcquire_Shared(t) == TRUE

\* RwLock::read().await resolves when no writer holds the lock,
\* RwLock::write().await when nobody holds it
CanAcquire(t) ==
    IF calls[t].op = "get" THEN Writers(WantedMap(calls[t])) = {}
    ELSE Writers(WantedMap(calls[t])) \cup Readers(WantedMap(calls[t])) = {}

\* faulty variant: the guard is kept across the handler's next storage call
NextCall_Holding(c) == [c EXCEPT !.stage = 2, !.pc = "want"]

\* the storage call returns (its guard is dropped) and the handler goes on
\* to its second storage call
NextCall(c) == [c EXCEPT !.lock = "none", !.stage = 2, !.pc = "want"]

\* the storage call returns and the handler answers
Respond(c, status) == [c EXCEPT !.lock = "none", !.pc = "responded", !.status = status]

\* a request arrives: PATCH chunk (append), PUT finish with an empty body
\* (finish), PUT manifest (put), GET manifest (get)
mem_call(t, op, arg, data) ==
    /\ issued # {}
    /\ calls[t].op = "idle"
    /\ calls' = [calls EXCEPT ![t] = [Idle EXCEPT !.op = op, !.pc = "want", !.stage = 1,
                                                  !.arg = arg, !.data = data]]
    /\ UNCHANGED <<backend, storage, issued, resp, sent, mput, nput, stored>>

\* self.<map>.read().await / self.<map>.write().await
mem_acquire(t) ==
    /\ calls[t].pc = "want"
    /\ CanAcquire(t)
    /\ calls' = [calls EXCEPT ![t].pc = "locked", ![t].lock = WantedMap(calls[t])]
    /\ UNCHANGED <<backend, storage, issued, resp, sent, mput, nput, stored>>

\* append_upload under the write guard: get_mut(uuid) finds the session
mem_get_mut(t) ==
    /\ calls[t].pc = "locked"
    /\ calls[t].op = "append"
    /\ calls' = IF TheUpload \in DOMAIN storage.uploads
                THEN [calls EXCEPT ![t].pc = "extend",
                                   ![t].existing = storage.uploads[TheUpload]]
                ELSE [calls EXCEPT ![t] = Respond(@, 404)]
    /\ UNCHANGED <<backend, storage, issued, resp, sent, mput, nput, stored>>

\* upload.extend_from_slice(data); Ok(()) and the handler answers 202
mem_extend(t) ==
    /\ calls[t].pc = "extend"
    /\ storage' = [storage EXCEPT
                     !.uploads = Put(@, TheUpload, calls[t].existing \o calls[t].data)]
    /\ calls' = [calls EXCEPT ![t] = Respond(@, 202)]
    /\ UNCHANGED <<backend, issued, resp, sent, mput, nput, stored>>

\* faulty variant: the digest key is stored first
PutKey_DigestFirst(c) ==
    IF c.stage = 1 THEN ManifestKey(<<114>>, Sha256Digest(c.data))
    ELSE ManifestKey(<<114>>, c.arg)

\* the key of put_manifest's first and second store_manifest call: key, then
\* digest_key
PutKey(c) ==
    IF c.stage = 1 THEN ManifestKey(<<114>>, c.arg)
    ELSE ManifestKey(<<114>>, Sha256Digest(c.data))

\* the other storage calls under their guard: finish_upload then store_blob
\* (finish), store_manifest under name:reference then under name:digest
\* (put), get_manifest (get); the name is "r"
mem_step(t) ==
    /\ calls[t].pc = "locked"
    /\ calls[t].op # "append"
    /\ LET c == calls[t]
           key == ManifestKey(<<114>>, c.arg)
       IN  CASE c.op = "finish" /\ c.stage = 1 ->
                  LET r == MemoryStorage_finish_upload(storage, TheUpload)
                  IN  /\ storage' = r.st
                      /\ calls' = [calls EXCEPT ![t] =
                                      IF r.val = None THEN Respond(c, 404)
                                      ELSE NextCall([c EXCEPT !.val = r.val])]
             [] c.op = "finish" /\ c.stage = 2 ->
                  /\ storage' = MemoryStorage_store_blob(storage, Sha256Digest(c.val[1]),
                                                         c.val[1]).st
                  /\ calls' = [calls EXCEPT ![t] = Respond(c, 201)]
             [] c.op = "put" ->
                  /\ storage' = MemoryStorage_store_manifest(
                                    storage, PutKey(c), ManifestEntry(c.data, <<116>>)).st
                  /\ calls' = [calls EXCEPT ![t] =
                                  IF c.stage = 1 THEN NextCall(c) ELSE Respond(c, 201)]
             [] c.op = "get" ->
                  LET r == MemoryStorage_get_manifest(storage, key)
                  IN  /\ storage' = storage
                      /\ calls' = [calls EXCEPT ![t] =
                                      Respond([c EXCEPT !.val = r.val],
                                              IF r.val = None THEN 404 ELSE 200)]
    /\ UNCHANGED <<backend, issued, resp, sent, mput, nput, stored>>

NextMem ==
    \/ conc_create
    \/ \E t \in Tasks, data \in MemChunks : mem_call(t, "append", <<>>, data)
    \/ \E t \in Tasks : mem_call(t, "finish", <<>>, <<>>)
    \/ \E t \in Tasks : mem_call(t, "put", <<108,97,116,101,115,116>>, MemManifest.data)
    \/ \E t \in Tasks, reference \in MemRefs : mem_call(t, "get", reference, <<>>)
    \/ \E t \in Tasks : mem_acquire(t)
    \/ \E t \in Tasks : mem_get_mut(t)
    \/ \E t \in Tasks : mem_extend(t)
    \/ \E t \in Tasks : mem_step(t)

SpecMem == InitMem /\ [][NextMem]_vars

\* the orders in which the tasks of S can be lined up
Orders(S) == {f \in [1..Cardinality(S) -> S] : \A i, j \in DOMAIN f : f[i] = f[j] => i = j}

\* the chunks of the tasks of an order, one after the other
RECURSIVE ChunksInOrder(_)
ChunksInOrder(f) ==
    IF f = <<>> THEN <<>>
    ELSE ChunksInOrder(SubSeq(f, 1, Len(f) - 1)) \o calls[f[Len(f)]].data

\* the PATCH requests answered 202
Accepted == {t \in Tasks : calls[t].op = "append" /\ calls[t].status = 202}

\* C21: on memory, when two or more concurrent appends on the session were
\* answered 202 (and no finish-upload was requested), the session holds
\* their chunks whole, one after the other in some order: none is lost and
\* none is split.
C21_AppendsLinearizable ==
    (Cardinality(Accepted) >= 2 /\ \A t \in Tasks : calls[t].op # "finish")
        => \E f \in Orders(Accepted) :
              Lookup(storage.uploads, TheUpload) = Some(ChunksInOrder(f))

\* the chunk <<1, 1>> and the chunk <<0>> were both accepted, <<1, 1>> first
C21_Witness ==
    /\ Cardinality(Accepted) = 2
    /\ \A t \in Tasks : calls[t].op \in {"append", "idle"}
    /\ Lookup(storage.uploads, TheUpload) = Some(<<1, 1, 0>>)

\* the two keys of the PUT manifest requests of SpecMem
MemKey == ManifestKey(<<114>>, <<108,97,116,101,115,116>>)

MemDigestKey == ManifestKey(<<114>>, Sha256Digest(MemManifest.data))

\* C23: the reference key is written before the digest key: in no state does
\* the digest key hold the manifest of a PUT while the reference key does
\* not, and no GET by the digest was answered 200 before the reference key
\* held the manifest.
C23_ReferenceFirst ==
    /\ Lookup(storage.manifests, MemDigestKey) # None
          => Lookup(storage.manifests, MemKey) = Some(MemManifest)
    /\ \A t \in Tasks :
          (calls[t].op = "get" /\ calls[t].status = 200)
              => Lookup(storage.manifests, MemKey) = Some(MemManifest)

\* while a PUT is between its two stores, GET by the reference was answered
\* 200 with the manifest and GET by its digest 404
C23_Witness ==
    /\ \E t \in Tasks : calls[t].op = "put" /\ calls[t].stage = 2 /\ calls[t].pc = "want"
    /\ \E t \in Tasks : /\ calls[t].op = "get"
                        /\ calls[t].arg = <<108,97,116,101,115,116>>
                        /\ calls[t].status = 200
                        /\ calls[t].val = Some(MemManifest)
    /\ \E t \in Tasks : /\ calls[t].op = "get"
                        /\ calls[t].arg = Sha256Digest(MemManifest.data)
                        /\ calls[t].status = 404
    /\ Lookup(storage.manifests, MemDigestKey) = None


(***************************************************************************)
(* SpecCollide: calls of the manifest and blob operations of the Storage   *)
(* trait, one at a time, with no I/O failure, on keys of which two become  *)
(* equal once sanitized. mput holds, by key, the entry last stored under   *)
(* that very key.                                                          *)
(***************************************************************************)
\* manifest keys "r:a", "r_a" and "r:b"
CollideKeys == {<<114,58,97>>, <<114,95,97>>, <<114,58,98>>}

CollideEntries == {ManifestEntry(<<0>>, <<116>>), ManifestEntry(<<1>>, <<117>>)}

\* storage.store_manifest(key, entry).await
call_store_manifest(key, entry) ==
    LET r == Storage_store_manifest(backend, storage, key, entry, 0)
    IN  /\ storage' = r.st
        /\ mput' = IF r.err = "ok" THEN Put(mput, key, entry) ELSE mput
        /\ resp' = [Request("Storage::store_manifest", <<>>, key, entry.data) EXCEPT
                      !.h_content_type = Some(entry.content_type),
                      !.warned = IF r.err = "ok" THEN <<>> ELSE <<1>>]
        /\ UNCHANGED <<backend, issued, calls, sent, nput, stored>>

\* storage.get_manifest(key).await: out is the Option it returns
call_get_manifest(key) ==
    LET r == Storage_get_manifest(backend, storage, key, 0)
    IN  /\ resp' = [Request("Storage::get_manifest", <<>>, key, <<>>) EXCEPT
                      !.out = r.val,
                      !.warned = IF r.err = "ok" THEN <<>> ELSE <<1>>]
        /\ UNCHANGED <<backend, storage, issued, calls, sent, mput, nput, stored>>

NextCollide ==
    \/ \E key \in CollideKeys, entry \in CollideEntries : call_store_manifest(key, entry)
    \/ \E key \in CollideKeys : call_get_manifest(key)
    \/ \E digest \in StoreDigests, data \in BothBlobs : call_store_blob(digest, data)
    \/ \E digest \in StoreDigests : call_get_blob(digest)

SpecCollide == Init /\ [][NextCollide]_vars

\* C24: on disk, a store under a key makes get under every other key with
\* the same sanitized form return the stored value, and leaves what get
\* returns under every key with another sanitized form as it was; for
\* manifest keys and for blob digests alike.
C24_SanitizedCollisions ==
    [][backend = "disk" =>
        /\ resp'.op = "Storage::store_manifest" =>
              \A k2 \in CollideKeys \ {resp'.arg} :
                 IF Sanitize(k2) = Sanitize(resp'.arg)
                 THEN Storage_get_manifest(backend, storage', k2, 0).val
                         = Some(ManifestEntry(resp'.body, resp'.h_content_type[1]))
                 ELSE Storage_get_manifest(backend, storage', k2, 0).val
                         = Storage_get_manifest(backend, storage, k2, 0).val
        /\ resp'.op = "Storage::store_blob" =>
              \A d2 \in StoreDigests \ {resp'.arg} :
                 IF Sanitize(d2) = Sanitize(resp'.arg)
                 THEN Storage_get_blob(backend, storage', d2, 0).val = Some(resp'.body)
                 ELSE Storage_get_blob(backend, storage', d2, 0).val
                         = Storage_get_blob(backend, storage, d2, 0).val]_vars

\* on disk, get under "r_a", a key never stored, returns the entry just
\* stored under "r:a", and get under "r:b", stored before, its own entry;
\* get_blob under "sha256_ab", never stored, returns the blob of "sha256:ab"
C24_Witness ==
    /\ backend = "disk"
    /\ resp.op = "Storage::store_manifest"
    /\ resp.arg = <<114,58,97>>
    /\ DOMAIN mput = {<<114,58,97>>, <<114,58,98>>}
    /\ mput[<<114,58,98>>] # mput[<<114,58,97>>]
    /\ Storage_get_manifest(backend, storage, <<114,95,97>>, 0).val
          = Some(mput[<<114,58,97>>])
    /\ Storage_get_manifest(backend, storage, <<114,58,98>>, 0).val
          = Some(mput[<<114,58,98>>])
    /\ DOMAIN stored = {DQ}
    /\ Storage_get_blob(backend, storage, DH, 0).val = Some(stored[DQ])


(***************************************************************************)
(* SpecKeys: the manifest handlers, one request at a time, with no I/O     *)
(* failure, on repository names and references that contain ':'.           *)
(***************************************************************************)
\* repository names "a" and "a:b"
KeyNames == {<<97>>, <<97,58,98>>}

\* references "c" and "b:c"
KeyRefs == {<<99>>, <<98,58,99>>}

NextKeys ==
    \/ \E name \in KeyNames, reference \in KeyRefs, h \in ContentTypes,
          body \in ManifestBodies : put_manifest(name, reference, h, body, 0, 0)
    \/ \E name \in KeyNames, reference \in KeyRefs : get_manifest(name, reference, 0)
    \/ \E name \in KeyNames, reference \in KeyRefs : check_manifest(name, reference, 0)

SpecKeys == Init /\ [][NextKeys]_vars

\* C25: a PUT manifest under (n1, r1) with body M leaves what the storage
\* returns for the key of every pair (n2, r2) other than (n1, r1) and
\* (n1, sha256(M)) as it was.
C25_PairsIsolated ==
    [][resp'.op = "put_manifest" =>
          \A n2 \in KeyNames, r2 \in KeyRefs :
             (<<n2, r2>> \notin {<<resp'.name, resp'.arg>>,
                                 <<resp'.name, Sha256Digest(resp'.body)>>})
                => Storage_get_manifest(backend, storage',
                                        ManifestKey(strip_leading_slash(n2), r2), 0).val
                      = Storage_get_manifest(backend, storage,
                                        ManifestKey(strip_leading_slash(n2), r2), 0).val]_vars


\* C26: a GET manifest answered 200 for a reference of the form sha256:<hex>
\* returns a body whose SHA-256 digest is that reference, and a HEAD answered
\* 200 for such a reference reports that reference as Docker-Content-Digest.
C26_DigestReferenceNamesContent ==
    (/\ resp.op \in {"get_manifest", "check_manifest"}
     /\ resp.status = 200
     /\ Len(resp.arg) >= 7
     /\ SubSeq(resp.arg, 1, 7) = <<115,104,97,50,53,54,58>>)
        => /\ resp.op = "get_manifest" => Sha256Digest(resp.out) = resp.arg
           /\ resp.op = "check_manifest" => resp.DockerContentDigest = resp.arg


\* C27: when PUT manifest answers 500, the entry the storage holds under
\* name:reference is the one it held before the request.
C27_FailedPutKeepsEntry ==
    [][(resp'.op = "put_manifest" /\ resp'.status = 500)
          => StoredManifest(backend, storage',
                            ManifestKey(strip_leading_slash(resp'.name), resp'.arg))
                = StoredManifest(backend, storage,
                            ManifestKey(strip_leading_slash(resp'.name), resp'.arg))]_vars


\* C28: when finish-upload answers 500, store_blob having failed, the
\* session of that id is gone and the blobs of the store are what they were;
\* a finish-upload or an upload-chunk on the same id right after it answers
\* 404.
C28_FailedFinishDropsSession ==
    [][/\ (resp'.op = "finish_upload" /\ resp'.status = 500)
            => /\ PeekUpload(backend, storage, resp'.arg) # None
               /\ PeekUpload(backend, storage', resp'.arg) = None
               /\ StoredBlobs(backend, storage') = StoredBlobs(backend, storage)
       /\ (/\ resp.op = "finish_upload" /\ resp.status = 500
           /\ resp'.op \in {"finish_upload", "upload_chunk"}
           /\ resp'.arg = resp.arg)
            => resp'.status = 404]_vars

\* a finish-upload with a closing chunk answered 500, store_blob having
\* failed; the session is gone and the store holds no blob
C28_Witness ==
    /\ resp.op = "finish_upload"
    /\ resp.status = 500
    /\ resp.warned = <<2>>
    /\ resp.body # <<>>
    /\ PeekUpload(backend, storage, resp.arg) = None
    /\ DOMAIN StoredBlobs(backend, storage) = {}


(***************************************************************************)
(* SpecMemFair: SpecMem under fair scheduling: a task whose next step can  *)
(* be taken is eventually polled and takes it.                             *)
(***************************************************************************)
\* the steps of task t once its request has arrived
mem_run(t) == mem_acquire(t) \/ mem_get_mut(t) \/ mem_extend(t) \/ mem_step(t)

SpecMemFair == InitMem /\ [][NextMem]_vars /\ \A t \in Tasks : WF_vars(mem_run(t))

\* C29: on the memory backend a task holds no lock outside a storage call,
\* and every request that has arrived is eventually answered.
C29_EveryRequestAnswered ==
    /\ [](\A t \in Tasks :
            calls[t].pc \in {"idle", "want", "responded"} => calls[t].lock = "none")
    /\ \A t \in Tasks : (calls[t].op # "idle") ~> (calls[t].pc = "responded")

\* three concurrent requests all answered: a PUT manifest 201 after its two
\* stores, a PUT finish 201 after its remove and its store, and a PATCH 202
C29_Witness ==
    /\ \E t \in Tasks : calls[t].op = "put" /\ calls[t].stage = 2 /\ calls[t].status = 201
    /\ \E t \in Tasks : calls[t].op = "finish" /\ calls[t].stage = 2 /\ calls[t].status = 201
    /\ \E t \in Tasks : calls[t].op = "append" /\ calls[t].status = 202
    /\ \A t \in Tasks : calls[t].pc = "responded" /\ calls[t].lock = "none"

====
